---- MODULE Spec2Model ----
(***************************************************************************)
(* BaseTag3D (src/src/base.js): the label wrap loop of getSubtitleMesh,    *)
(* the layout offsets, the base / border / keychain parts and the          *)
(* assembler generate3dModel.                                              *)
(*                                                                         *)
(* Strings are sequences of one-character strings.  Lengths are integers   *)
(* in units of 0.05, so that the 0.1 of getTextTopOffset is 2 units; the   *)
(* inputs are chosen even so that every halving of the source is exact.    *)
(***************************************************************************)
EXTENDS Integers, Sequences, FiniteSets, TLC

\* ------------------------------------------------------------ bounds
\* longest raw message enumerated for the label specification
MaxLen == 3
\* cap on the number of line entries a label may grow to
MaxLines == 4

\* ------------------------------------------------------------ constants
\* LINE_HEIGHT = 1.5, as the ratio LineHeightNum / LineHeightDen
LineHeightNum == 3
LineHeightDen == 2
\* the 0.1 correction of getTextTopOffset, in units of 0.05
TopOffsetFix == 2
\* emphasis parsing stops at this level
MaxEmphLevel == 3

\* ------------------------------------------------------------ inputs
Star == "*"
Space == " "
NewLine == "\n"
Chars == {"a", Star, Space, NewLine}
Whitespace == {Space, NewLine}

Placements == {"top", "bottom", "center", "left", "right"}
WrapPlacements == {"top", "bottom", "center"}
SidePlacements == {"left", "right"}

\* base.width, base.height, code.margin, base.borderWidth, base.textSize,
\* base.textMargin of the configurations explored; width 6 leaves an
\* availableWidth of 2, less than the narrowest 'a'
Widths == {6, 8, 12, 16}
Heights == {20}
Margins == {2}
BorderWidths == {2}
TextSizes == {4}
TextMargins == {2}

\* ------------------------------------------------------------ strings
StringsUpTo(n) == UNION {[1..k -> Chars] : k \in 0..n}

\* String.prototype.substr(start, length) with a 0-based start
Substr(s, start, length) ==
    IF length <= 0 \/ start >= Len(s) THEN <<>>
    ELSE SubSeq(s, start + 1, IF start + length > Len(s) THEN Len(s) ELSE start + length)

RECURSIVE TrimLeft(_)
TrimLeft(s) == IF s # <<>> /\ Head(s) \in Whitespace THEN TrimLeft(Tail(s)) ELSE s

RECURSIVE TrimRight(_)
TrimRight(s) ==
    IF s # <<>> /\ s[Len(s)] \in Whitespace THEN TrimRight(SubSeq(s, 1, Len(s) - 1)) ELSE s

\* String.prototype.trim
Trim(s) == TrimRight(TrimLeft(s))

\* String.prototype.split('\n'): never empty, "" gives [""]
RECURSIVE SplitFrom(_, _)
SplitFrom(s, cur) ==
    IF s = <<>> THEN <<cur>>
    ELSE IF Head(s) = NewLine THEN <<cur>> \o SplitFrom(Tail(s), <<>>)
    ELSE SplitFrom(Tail(s), Append(cur, Head(s)))

Split(s) == SplitFrom(s, <<>>)

\* a slip: the lines are joined with a space
RECURSIVE JoinSpaces(_)
JoinSpaces(lines) ==
    IF lines = <<>> THEN <<>>
    ELSE IF Len(lines) = 1 THEN lines[1]
    ELSE lines[1] \o <<Space>> \o JoinSpaces(Tail(lines))

\* Array.prototype.join('\n')
RECURSIVE Join(_)
Join(lines) ==
    IF lines = <<>> THEN <<>>
    ELSE IF Len(lines) = 1 THEN lines[1]
    ELSE lines[1] \o <<NewLine>> \o Join(Tail(lines))

\* '*'.repeat(n)
RECURSIVE Repeat(_, _)
Repeat(c, n) == IF n <= 0 THEN <<>> ELSE <<c>> \o Repeat(c, n - 1)

\* Array.prototype.splice(at, 0, item) with a 0-based index
Splice(lines, at, item) ==
    SubSeq(lines, 1, at) \o <<item>> \o SubSeq(lines, at + 1, Len(lines))

\* the emphasis loop: strips balanced leading/trailing '*' pairs
RECURSIVE StripEmphFrom(_, _)
StripEmphFrom(text, level) ==
    IF text # <<>> /\ text[1] = Star /\ text[Len(text)] = Star
    THEN IF level + 1 = MaxEmphLevel
         THEN [text |-> Substr(text, 1, Len(text) - 2), level |-> level + 1]
         ELSE StripEmphFrom(Substr(text, 1, Len(text) - 2), level + 1)
    ELSE [text |-> text, level |-> level]

StripEmph(line) == StripEmphFrom(line, 0)

\* ------------------------------------------------------------ measuring
\* horizontal advance of one glyph in fonts[font] (0 regular, 1 italic, 2 bold,
\* 3 bold italic); the extra-bold faces are wider
Advance(c, font) ==
    IF c = "a" THEN (IF font >= 2 THEN 6 ELSE 4)
    ELSE 2

HasInk(c) == c \notin Whitespace

RECURSIVE AdvanceSum(_, _)
AdvanceSum(s, font) ==
    IF s = <<>> THEN 0 ELSE Advance(Head(s), font) + AdvanceSum(Tail(s), font)

\* x size of the bounding box of the extruded text: from the first glyph
\* with an outline to the last one; 0 when nothing has an outline
TextWidth(s, font) ==
    LET ink == {k \in 1..Len(s) : HasInk(s[k])}
    IN IF ink = {} THEN 0
       ELSE LET first == CHOOSE k \in ink : \A j \in ink : k <= j
                last == CHOOSE k \in ink : \A j \in ink : k >= j
            IN AdvanceSum(SubSeq(s, first, last), font)

\* ------------------------------------------------------------ state
VARIABLES
    options,                 \* this.options: the configuration, shared with the caller
    availableWidth,          \* this.availableWidth, set by the constructor
    subtitleMesh, baseMesh, borderMesh, keychainAttachmentMesh, combinedMesh,
    exportedMeshes,          \* this.exportedMeshes: part name -> mesh
    pc,                      \* position in generate3dModel / getSubtitleMesh
    caller,                  \* who called getSubtitleMesh: "generate" or "direct"
    textLines, numLines, i, text, emphLevel, newLineCreated,  \* locals of getSubtitleMesh
    textGeometry,            \* the lines merged into the label so far
    iters,                   \* history: wrap iterations of the current line that did not exit
    inputLines,              \* history: the line list the current call started from
    prevWritten,             \* history: the line list the previous call wrote back
    options0,                \* history: the configuration when generate3dModel was called
    log,                     \* history: the steps generate3dModel has finished in this run
    generation               \* history: "none", "first" or "later" run on this instance

meshVars == <<subtitleMesh, baseMesh, borderMesh, keychainAttachmentMesh, combinedMesh,
              exportedMeshes>>
lineVars == <<text, emphLevel, newLineCreated, iters>>
labelVars == <<textLines, numLines, i, text, emphLevel, newLineCreated, textGeometry,
               iters, inputLines, prevWritten>>
runVars == <<options0, log, generation>>
vars == <<options, availableWidth, subtitleMesh, baseMesh, borderMesh,
          keychainAttachmentMesh, combinedMesh, exportedMeshes, pc, caller,
          textLines, numLines, i, text, emphLevel, newLineCreated, textGeometry,
          iters, inputLines, prevWritten, options0, log, generation>>

NoMesh == [kind |-> "null"]
NoLines == [has |-> FALSE, lines |-> <<>>]
NoParts == [p \in {} |-> NoMesh]

\* ------------------------------------------------------------ layout offsets
GetCornerRadius(o) == IF o.shape = "roundedRectangle" THEN o.cornerRadius ELSE 0

RECURSIVE MaxRegularWidth(_)
MaxRegularWidth(lines) ==
    IF lines = <<>> THEN 0
    ELSE LET w == TextWidth(StripEmph(Head(lines)).text, 0)
             rest == MaxRegularWidth(Tail(lines))
         IN IF w > rest THEN w ELSE rest

GetTextRenderWidth(o) ==
    IF ~o.hasText THEN 0 ELSE MaxRegularWidth(Split(Trim(o.textMessage)))

GetTextBaseOffset(o) ==
    IF o.hasText /\ o.textPlacement \in {"top", "bottom"}
    THEN (o.textSize * Len(Split(Trim(o.textMessage))) * LineHeightNum) \div LineHeightDen
         + 2 * o.textMargin
    ELSE IF o.hasText /\ o.textPlacement \in {"left", "right"}
    THEN GetTextRenderWidth(o) + 2 * o.textMargin
    ELSE 0

GetTextTopOffset(o) ==
    IF o.textPlacement = "top" THEN 2 * GetTextBaseOffset(o) - TopOffsetFix ELSE 0

GetTextLeftOffset(o) ==
    IF o.textPlacement = "left" THEN 2 * GetTextBaseOffset(o) ELSE 0

\* getRoundedRectShape(x, y, width, height, radius)
RoundedRectShape(x, y, w, h, r) == [x |-> x, y |-> y, width |-> w, height |-> h, radius |-> r]

\* ------------------------------------------------------------ getSubtitleMesh
\* a slip: the width is compared with the width before the margins are taken off
OverflowsLoose(width, avail) == width > avail + 4

\* the test of line 179, repeated as the loop condition of line 190
Overflows(width, avail) == width > avail

\* a slip: the first character is dropped instead of the last
SnipFirst(t) == Substr(t, 1, Len(t) - 1)

\* text.substr(0, text.length - 1)
SnipLast(t) == Substr(t, 0, Len(t) - 1)

\* placement of line idx (0-based) under top / bottom / center, lines 201-210
LinePlacement(o, idx, n) ==
    LET lineStep == (o.textSize * idx * LineHeightNum) \div LineHeightDen
        nextStep == (o.textSize * (idx + 1) * LineHeightNum) \div LineHeightDen
        topSide == -(o.height \div 2) - o.textMargin - lineStep
        bottomSide == o.height \div 2 + o.textMargin + nextStep
                      - (IF o.hasBorder THEN o.borderWidth ELSE 0)
        center == (IF n > 1 THEN -(n * (o.textSize \div 2)) ELSE 0)
                  + o.textSize \div 2 + lineStep
    IN IF o.textPlacement = "top" THEN topSide
       ELSE IF o.textPlacement = "center" THEN center
       ELSE bottomSide

\* side of a line under left / right, lines 242-248
LineSidePosition(o, w) ==
    LET maxTextWidth == GetTextRenderWidth(o) + 2 * o.textMargin
        border == IF o.hasBorder THEN o.borderWidth ELSE 0
        leftSide == -(o.width \div 2) - w - (maxTextWidth - w) \div 2 + border
        rightSide == o.width \div 2 + (maxTextWidth - w) \div 2 - border
    IN IF o.textPlacement = "left" THEN leftSide ELSE rightSide

\* lines 150-151 and the loop initialisation of line 153
EnterSubtitle(who) ==
    /\ textLines' = Split(Trim(options.textMessage))
    /\ numLines' = Len(Split(Trim(options.textMessage)))
    /\ inputLines' = Split(Trim(options.textMessage))
    /\ prevWritten' = IF pc = "done"
                      THEN [has |-> TRUE, lines |-> textLines] ELSE NoLines
    /\ i' = 0
    /\ textGeometry' = <<>>
    /\ text' = <<>>
    /\ emphLevel' = 0
    /\ newLineCreated' = FALSE
    /\ iters' = 0
    /\ caller' = who
    /\ pc' = "line"

\* a caller invokes getSubtitleMesh on the instance
CallGetSubtitleMesh ==
    /\ pc \in {"idle", "done"}
    /\ EnterSubtitle("direct")
    /\ UNCHANGED <<options, availableWidth, meshVars, runVars>>

\* lines 154-168: the emphasis loop of one line, then into the wrap loop
LineBeginWrap ==
    /\ pc = "line"
    /\ i < numLines
    /\ options.textPlacement \in WrapPlacements
    /\ text' = StripEmph(textLines[i + 1]).text
    /\ emphLevel' = StripEmph(textLines[i + 1]).level
    /\ newLineCreated' = FALSE
    /\ iters' = 0
    /\ pc' = "wrap"
    /\ UNCHANGED <<options, availableWidth, meshVars, runVars, caller, textLines,
                   numLines, i, textGeometry, inputLines, prevWritten>>

\* lines 169-190: one iteration of the wrap loop that snips the last character
WrapSnip ==
    /\ pc = "wrap"
    /\ Overflows(TextWidth(text, emphLevel), availableWidth)
    /\ text # <<>>
    /\ newLineCreated \/ numLines < MaxLines
    /\ LET lastChar == text[Len(text)]
       IN /\ text' = SnipLast(text)
          /\ IF ~newLineCreated
             THEN /\ textLines' = Splice(textLines, i + 1, <<lastChar>>)
                  /\ numLines' = numLines + 1
             ELSE /\ textLines' = [textLines EXCEPT ![i + 2] = <<lastChar>> \o @]
                  /\ numLines' = numLines
    /\ newLineCreated' = TRUE
    /\ iters' = iters + 1
    /\ UNCHANGED <<options, availableWidth, meshVars, runVars, pc, caller, i,
                   emphLevel, textGeometry, inputLines, prevWritten>>

\* lines 169-227 and 265-281: the iteration that exits the wrap loop, the
\* emphasis markers of the overflow line, the placement and the merge
WrapFit ==
    /\ pc = "wrap"
    /\ ~Overflows(TextWidth(text, emphLevel), availableWidth)
    /\ textLines' = IF newLineCreated
                    THEN [textLines EXCEPT ![i + 2] =
                              Repeat(Star, emphLevel) \o @ \o Repeat(Star, emphLevel)]
                    ELSE textLines
    /\ textGeometry' = Append(textGeometry,
                              [text |-> text, font |-> emphLevel,
                               width |-> TextWidth(text, emphLevel),
                               placement |-> LinePlacement(options, i, numLines),
                               split |-> newLineCreated])
    /\ i' = i + 1
    /\ pc' = "line"
    /\ UNCHANGED <<options, availableWidth, meshVars, runVars, caller, numLines,
                   lineVars, inputLines, prevWritten>>

\* lines 154-162 and 228-281: one line under left / right, measured once
LineSide ==
    /\ pc = "line"
    /\ i < numLines
    /\ options.textPlacement \in SidePlacements
    /\ LET parsed == StripEmph(textLines[i + 1])
           w == TextWidth(parsed.text, parsed.level)
       IN /\ text' = parsed.text
          /\ emphLevel' = parsed.level
          /\ textGeometry' = Append(textGeometry,
                                    [text |-> parsed.text, font |-> parsed.level,
                                     width |-> w,
                                     placement |-> LineSidePosition(options, w),
                                     split |-> FALSE])
    /\ i' = i + 1
    /\ UNCHANGED <<availableWidth, options, meshVars, runVars, pc, caller, textLines,
                   numLines, newLineCreated, iters, inputLines, prevWritten>>

\* ------------------------------------------------------------ generate3dModel
\* a slip: the plate is built before the label has been wrapped
BaseFirstOrder == <<"base", "label", "border", "keychain", "combined">>

\* the order of the statements of generate3dModel, lines 598-617
GenerationOrder == <<"label", "base", "border", "keychain", "combined">>

\* the condition under which generate3dModel runs a step
StepEnabled(step, o) ==
    IF step = "label" THEN o.hasText
    ELSE IF step = "border" THEN o.hasBorder
    ELSE IF step = "keychain" THEN o.hasKeychainAttachment
    ELSE TRUE

IndexOf(step) == CHOOSE k \in 1..Len(GenerationOrder) : GenerationOrder[k] = step

\* the first step after position k that the configuration enables
RECURSIVE StepAfter(_, _)
StepAfter(k, o) ==
    IF k >= Len(GenerationOrder) THEN "done"
    ELSE IF StepEnabled(GenerationOrder[k + 1], o) THEN GenerationOrder[k + 1]
    ELSE StepAfter(k + 1, o)

\* history: a mesh made by an earlier run is no longer fresh
Aged(m) == IF m = NoMesh THEN m ELSE [m EXCEPT !.fresh = FALSE]

\* the locals of the last getSubtitleMesh call are gone
ResetLocals ==
    /\ textLines' = <<>>
    /\ numLines' = 0
    /\ i' = 0
    /\ text' = <<>>
    /\ emphLevel' = 0
    /\ newLineCreated' = FALSE
    /\ textGeometry' = <<>>
    /\ iters' = 0
    /\ inputLines' = <<>>
    /\ prevWritten' = NoLines
    /\ caller' = "direct"

\* line 284 (and 599-602 under generate3dModel): the loop is over, the line
\* list is written back and the label is returned
LabelReturn ==
    /\ pc = "line"
    /\ i >= numLines
    /\ options' = [options EXCEPT !.textMessage = Join(textLines)]
    /\ IF caller = "generate"
       THEN LET mesh == [kind |-> "subtitle", lines |-> textGeometry, fresh |-> TRUE]
            IN /\ subtitleMesh' = mesh
               /\ exportedMeshes' = IF ~options.invert
                                    THEN ("subtitle" :> mesh) @@ exportedMeshes
                                    ELSE exportedMeshes
               /\ log' = Append(log, "label")
               /\ pc' = StepAfter(IndexOf("label"), options)
       ELSE /\ pc' = "done"
            /\ UNCHANGED <<subtitleMesh, exportedMeshes, log>>
    /\ UNCHANGED <<availableWidth, baseMesh, borderMesh, keychainAttachmentMesh,
                   combinedMesh, caller, labelVars, options0, generation>>

\* generate3dModel is called: nothing is reset, line 597
Generate ==
    /\ pc \in {"idle", "done"}
    /\ options0' = options
    /\ log' = <<>>
    /\ generation' = IF generation = "none" THEN "first" ELSE "later"
    /\ subtitleMesh' = Aged(subtitleMesh)
    /\ baseMesh' = Aged(baseMesh)
    /\ borderMesh' = Aged(borderMesh)
    /\ keychainAttachmentMesh' = Aged(keychainAttachmentMesh)
    /\ combinedMesh' = Aged(combinedMesh)
    /\ exportedMeshes' = [k \in DOMAIN exportedMeshes |-> Aged(exportedMeshes[k])]
    /\ pc' = StepAfter(0, options)
    /\ ResetLocals
    /\ UNCHANGED <<options, availableWidth>>

\* line 599: generate3dModel calls getSubtitleMesh
GenLabel ==
    /\ pc = "label"
    /\ EnterSubtitle("generate")
    /\ UNCHANGED <<options, availableWidth, meshVars, runVars>>

\* lines 103-132: the indentation solid subtracted from the plate; its x is
\* set to the plate's, its y is never set (0)
NfcIndentation(o, px) ==
    IF o.hasNfcIndentation THEN [has |-> TRUE, x |-> px, y |-> 0]
    ELSE [has |-> FALSE, x |-> 0, y |-> 0]

\* getBaseMesh, lines 52-134 (the plate profile, its shift, the indentation)
GetBaseMesh(o) ==
    LET cornerRadius == GetCornerRadius(o)
        textBaseOffset == GetTextBaseOffset(o)
        shape == IF o.textPlacement \in {"top", "bottom", "center"}
                 THEN RoundedRectShape(-((o.height + textBaseOffset) \div 2),
                                       -(o.width \div 2),
                                       o.height + textBaseOffset, o.width, cornerRadius)
                 ELSE RoundedRectShape(-(o.height \div 2),
                                       -((o.width + textBaseOffset) \div 2),
                                       o.height, o.width + textBaseOffset, cornerRadius)
        px == IF textBaseOffset > 0 /\ o.textPlacement = "bottom" THEN textBaseOffset \div 2
              ELSE IF textBaseOffset > 0 /\ o.textPlacement = "top"
              THEN -(textBaseOffset \div 2)
              ELSE 0
        py == IF textBaseOffset > 0 /\ o.textPlacement = "left" THEN -(textBaseOffset \div 2)
              ELSE IF textBaseOffset > 0 /\ o.textPlacement = "right"
              THEN textBaseOffset \div 2
              ELSE 0
    IN [kind |-> "base", shape |-> shape, x |-> px, y |-> py,
        textBaseOffset |-> textBaseOffset, nfc |-> NfcIndentation(o, px),
        fresh |-> TRUE]

\* lines 605-606
GenBase ==
    /\ pc = "base"
    /\ baseMesh' = GetBaseMesh(options)
    /\ exportedMeshes' = ("base" :> GetBaseMesh(options)) @@ exportedMeshes
    /\ log' = Append(log, "base")
    /\ pc' = StepAfter(IndexOf("base"), options)
    /\ UNCHANGED <<options, availableWidth, subtitleMesh, borderMesh,
                   keychainAttachmentMesh, combinedMesh, caller, labelVars, options0,
                   generation>>

\* the outer profile of the border, lines 308-324
BorderShape(o) ==
    IF o.textPlacement \in {"top", "bottom", "center"}
    THEN RoundedRectShape(-((o.height + GetTextTopOffset(o)) \div 2),
                          -(o.width \div 2),
                          o.height + GetTextBaseOffset(o), o.width, GetCornerRadius(o))
    ELSE RoundedRectShape(-(o.height \div 2),
                          -((o.width + GetTextLeftOffset(o)) \div 2),
                          o.height, o.width + GetTextBaseOffset(o), GetCornerRadius(o))

Max0(x) == IF x > 0 THEN x ELSE 0

\* a slip: the hole is placed with the text-base offset, as the plate is
BorderHoleShapeBaseOffset(o) ==
    IF o.textPlacement \in {"top", "bottom", "center"}
    THEN RoundedRectShape(-((o.height + GetTextBaseOffset(o) - o.borderWidth * 2) \div 2),
                          -((o.width - o.borderWidth * 2) \div 2),
                          o.height + GetTextBaseOffset(o) - o.borderWidth * 2,
                          o.width - o.borderWidth * 2,
                          Max0(GetCornerRadius(o) - o.borderWidth))
    ELSE RoundedRectShape(-((o.height - o.borderWidth * 2) \div 2),
                          -((o.width + GetTextBaseOffset(o) - o.borderWidth * 2) \div 2),
                          o.height - o.borderWidth * 2,
                          o.width + GetTextBaseOffset(o) - o.borderWidth * 2,
                          Max0(GetCornerRadius(o) - o.borderWidth))

\* the hole profile of the border, lines 342-358
BorderHoleShape(o) ==
    IF o.textPlacement \in {"top", "bottom", "center"}
    THEN RoundedRectShape(-((o.height + GetTextTopOffset(o) - o.borderWidth * 2) \div 2),
                          -((o.width - o.borderWidth * 2) \div 2),
                          o.height + GetTextBaseOffset(o) - o.borderWidth * 2,
                          o.width - o.borderWidth * 2,
                          Max0(GetCornerRadius(o) - o.borderWidth))
    ELSE RoundedRectShape(-((o.height - o.borderWidth * 2) \div 2),
                          -((o.width + GetTextLeftOffset(o) - o.borderWidth * 2) \div 2),
                          o.height - o.borderWidth * 2,
                          o.width + GetTextBaseOffset(o) - o.borderWidth * 2,
                          Max0(GetCornerRadius(o) - o.borderWidth))

\* getBorderMesh, lines 291-372: outer minus hole, raised onto the plate
GetBorderMesh(o) ==
    [kind |-> "border", outer |-> BorderShape(o), hole |-> BorderHoleShape(o),
     textBaseOffset |-> GetTextBaseOffset(o), fresh |-> TRUE]

\* lines 607-610
GenBorder ==
    /\ pc = "border"
    /\ borderMesh' = GetBorderMesh(options)
    /\ exportedMeshes' = ("border" :> GetBorderMesh(options)) @@ exportedMeshes
    /\ log' = Append(log, "border")
    /\ pc' = StepAfter(IndexOf("border"), options)
    /\ UNCHANGED <<options, availableWidth, subtitleMesh, baseMesh,
                   keychainAttachmentMesh, combinedMesh, caller, labelVars, options0,
                   generation>>

\* getKeychainAttachmentMesh, lines 377-454: the tab, placed against the plate
GetKeychainAttachmentMesh(base) ==
    [kind |-> "keychainAttachment", baseX |-> base.x, baseY |-> base.y, fresh |-> TRUE]

\* lines 612-615
GenKeychain ==
    /\ pc = "keychain"
    /\ keychainAttachmentMesh' = GetKeychainAttachmentMesh(baseMesh)
    /\ exportedMeshes' = ("keychainAttachment" :> GetKeychainAttachmentMesh(baseMesh))
                         @@ exportedMeshes
    /\ log' = Append(log, "keychain")
    /\ pc' = StepAfter(IndexOf("keychain"), options)
    /\ UNCHANGED <<options, availableWidth, subtitleMesh, baseMesh, borderMesh,
                   combinedMesh, caller, labelVars, options0, generation>>

Part(name, m) == [part |-> name, fresh |-> m.fresh]

\* a slip: the label is merged whether or not code.invert is set
GetCombinedMeshKeepInverted ==
    [kind |-> "combined",
     parts |-> <<Part("base", baseMesh)>>
               \o (IF borderMesh # NoMesh THEN <<Part("border", borderMesh)>> ELSE <<>>)
               \o (IF subtitleMesh # NoMesh
                   THEN <<Part("subtitle", subtitleMesh)>> ELSE <<>>)
               \o (IF keychainAttachmentMesh # NoMesh
                   THEN <<Part("keychainAttachment", keychainAttachmentMesh)>> ELSE <<>>),
     fresh |-> TRUE]

\* getCombinedMesh, lines 553-592: the geometries merged, in the order pushed
GetCombinedMesh ==
    [kind |-> "combined",
     parts |-> <<Part("base", baseMesh)>>
               \o (IF borderMesh # NoMesh THEN <<Part("border", borderMesh)>> ELSE <<>>)
               \o (IF subtitleMesh # NoMesh /\ ~options.invert
                   THEN <<Part("subtitle", subtitleMesh)>> ELSE <<>>)
               \o (IF keychainAttachmentMesh # NoMesh
                   THEN <<Part("keychainAttachment", keychainAttachmentMesh)>> ELSE <<>>),
     fresh |-> TRUE]

\* line 617
GenCombined ==
    /\ pc = "combined"
    /\ baseMesh # NoMesh
    /\ combinedMesh' = GetCombinedMesh
    /\ exportedMeshes' = ("combined" :> GetCombinedMesh) @@ exportedMeshes
    /\ log' = Append(log, "combined")
    /\ pc' = StepAfter(IndexOf("combined"), options)
    /\ UNCHANGED <<options, availableWidth, subtitleMesh, baseMesh, borderMesh,
                   keychainAttachmentMesh, caller, labelVars, options0, generation>>

\* the caller changes a flag of the configuration object it shares with the
\* instance (line 22 copies the top level only) between two generations
Flags == {"hasBorder", "hasText", "invert", "hasKeychainAttachment"}

Reconfigure ==
    /\ pc \in {"idle", "done"}
    /\ \E f \in Flags : options' = [options EXCEPT ![f] = ~@]
    /\ pc' = "idle"
    /\ ResetLocals
    /\ options0' = options'
    /\ log' = <<>>
    /\ UNCHANGED <<availableWidth, meshVars, generation>>

\* ------------------------------------------------------------ construction
\* lines 33-38
AvailableWidth(o) ==
    o.width - 2 * o.margin - (IF o.hasBorder THEN 2 * o.borderWidth ELSE 0)

\* raw messages of the label specification: every string up to MaxLen, and
\* every shorter string inside one to three pairs of emphasis markers
LabelMessages ==
    StringsUpTo(MaxLen)
    \cup {Repeat(Star, l) \o b \o Repeat(Star, l) :
              l \in 1..MaxEmphLevel, b \in StringsUpTo(MaxLen - 1)}

\* raw messages of the generation specification
GenMessages ==
    {<<"a">>, <<"a", "a", "a">>, <<"*", "a", "a", "*">>, <<"a", Space, "a">>,
     <<Space, "a", NewLine, "a", "a", NewLine>>}

Configs(messages, flagSets) ==
    {o \in [hasBorder : BOOLEAN, hasText : flagSets, invert : flagSets,
            hasKeychainAttachment : flagSets, hasNfcIndentation : flagSets,
            textPlacement : Placements,
            textMessage : messages, width : Widths, height : Heights,
            margin : Margins, borderWidth : BorderWidths, textSize : TextSizes,
            textMargin : TextMargins,
            shape : {"rectangle", "roundedRectangle"}, cornerRadius : {1, 4}] :
        /\ AvailableWidth(o) >= 0
        \* cornerRadius is read under roundedRectangle only
        /\ o.shape = "rectangle" => o.cornerRadius = 1}

\* the constructor, lines 16-47
Constructed(o) ==
    /\ options = o
    /\ availableWidth = AvailableWidth(o)
    /\ subtitleMesh = NoMesh
    /\ baseMesh = NoMesh
    /\ borderMesh = NoMesh
    /\ keychainAttachmentMesh = NoMesh
    /\ combinedMesh = NoMesh
    /\ exportedMeshes = NoParts
    /\ pc = "idle"
    /\ caller = "direct"
    /\ textLines = <<>>
    /\ numLines = 0
    /\ i = 0
    /\ text = <<>>
    /\ emphLevel = 0
    /\ newLineCreated = FALSE
    /\ textGeometry = <<>>
    /\ iters = 0
    /\ inputLines = <<>>
    /\ prevWritten = NoLines
    /\ options0 = o
    /\ log = <<>>
    /\ generation = "none"

Init == \E o \in Configs(GenMessages, BOOLEAN) : Constructed(o)

Next ==
    \/ Generate
    \/ GenLabel
    \/ LineBeginWrap
    \/ WrapSnip
    \/ WrapFit
    \/ LineSide
    \/ LabelReturn
    \/ GenBase
    \/ GenBorder
    \/ GenKeychain
    \/ GenCombined

Spec == Init /\ [][Next]_vars

\* generations of one instance with the flags changed in between
InitReconfigure ==
    \E o \in Configs({<<"a", "a", "a">>}, BOOLEAN) :
        /\ o.shape = "rectangle"
        /\ o.width = 12
        /\ o.textPlacement \in {"bottom", "left"}
        /\ ~o.hasNfcIndentation
        /\ Constructed(o)

NextReconfigure ==
    \/ Next
    \/ Reconfigure

SpecReconfigure == InitReconfigure /\ [][NextReconfigure]_vars

\* the label alone: getSubtitleMesh called, and called again, on one instance
InitLabel ==
    \E o \in Configs(LabelMessages, {FALSE}) :
        /\ o.shape = "rectangle"
        /\ Constructed([o EXCEPT !.hasText = TRUE])

NextLabel ==
    \/ CallGetSubtitleMesh
    \/ LineBeginWrap
    \/ WrapSnip
    \/ WrapFit
    \/ LineSide
    \/ LabelReturn

SpecLabel == InitLabel /\ [][NextLabel]_vars

\* ------------------------------------------------------------ claims
WrapPlacement == options.textPlacement \in WrapPlacements

\* the line list held by base.textMessage
WrittenLines == Split(options.textMessage)

\* the stripped texts of a line list, concatenated
RECURSIVE StrippedConcat(_)
StrippedConcat(lines) ==
    IF lines = <<>> THEN <<>>
    ELSE StripEmph(Head(lines)).text \o StrippedConcat(Tail(lines))

\* C1: under top / bottom / center, a second getSubtitleMesh on the message
\* the first one wrote back writes back the same line list again.
C1_IdempotentWrapping ==
    (pc = "done" /\ WrapPlacement /\ prevWritten.has) => WrittenLines = prevWritten.lines

\* C2: under top / bottom / center, after k iterations of the wrap loop that
\* did not exit the candidate is the stripped line without its last k
\* characters, k never exceeds the length of the stripped line, and once all
\* characters are gone the loop exits.
C2_WrapLoopShortens ==
    pc = "wrap" =>
        LET text0 == StripEmph(textLines[i + 1]).text
        IN /\ iters <= Len(text0)
           /\ text = SubSeq(text0, 1, Len(text0) - iters)
           /\ (iters = Len(text0) =>
                   ~Overflows(TextWidth(text, emphLevel), availableWidth))

\* C2 witness: a line of two or more characters was snipped down to nothing
C2_Witness ==
    /\ pc = "wrap"
    /\ iters >= 2
    /\ text = <<>>
    /\ iters = Len(StripEmph(textLines[i + 1]).text)

\* C3: under top / bottom / center, every line merged into the label has, in
\* the font of its emphasis level, a measured width of at most availableWidth.
C3_WidthBound ==
    WrapPlacement =>
        \A k \in 1..Len(textGeometry) :
            /\ textGeometry[k].font = StripEmph(textLines[k]).level
            /\ TextWidth(textGeometry[k].text, textGeometry[k].font) <= availableWidth

\* C3 witness: lines in all four fonts were split and merged, with room for
\* at least one character
C3_Witness ==
    /\ WrapPlacement
    /\ availableWidth > 0
    /\ Len(textGeometry) > 0
    /\ textGeometry[1].split
    /\ textGeometry[1].font = MaxEmphLevel
    /\ textGeometry[1].text # <<>>

\* C4: under top / bottom / center the line list written back is the wrapped
\* pieces: entry k without its markers is the text rendered for line k, and
\* the entries together hold the characters of the input lines, each once
\* and in order.
C4_RejoinedReflectsSplit ==
    (pc = "done" /\ WrapPlacement) =>
        /\ Len(WrittenLines) = Len(textGeometry)
        /\ \A k \in 1..Len(textGeometry) :
               StripEmph(WrittenLines[k]).text = textGeometry[k].text
        /\ StrippedConcat(WrittenLines) = StrippedConcat(inputLines)

\* C5: when the wrap loop splits a line of emphasis level L, the line kept
\* in place and the overflow line after it both parse with level L.
C5_EmphasisRoundTrip ==
    WrapPlacement =>
        \A k \in 1..Len(textGeometry) :
            textGeometry[k].split =>
                /\ StripEmph(textLines[k]).level = textGeometry[k].font
                /\ StripEmph(textLines[k + 1]).level = textGeometry[k].font

\* the parts the configuration enables
EnabledParts(o) ==
    {"base"}
    \cup (IF o.hasBorder THEN {"border"} ELSE {})
    \cup (IF o.hasText /\ ~o.invert THEN {"subtitle"} ELSE {})
    \cup (IF o.hasKeychainAttachment THEN {"keychainAttachment"} ELSE {})

\* the names of the parts merged into the combined mesh
CombinedParts == {combinedMesh.parts[k].part : k \in 1..Len(combinedMesh.parts)}

\* C6: after generate3dModel on a freshly constructed instance the part set
\* holds 'combined' and exactly the parts the configuration enables, and the
\* combined mesh is merged from exactly those parts, each once.
C6_PartSetComplete ==
    (pc = "done" /\ generation = "first") =>
        /\ DOMAIN exportedMeshes = EnabledParts(options) \cup {"combined"}
        /\ CombinedParts = EnabledParts(options)
        /\ Len(combinedMesh.parts) = Cardinality(EnabledParts(options))
        /\ exportedMeshes["combined"] = combinedMesh

\* C6 witness: a first generation with every part enabled
C6_Witness ==
    /\ pc = "done"
    /\ generation = "first"
    /\ options.hasBorder
    /\ options.hasText
    /\ ~options.invert
    /\ options.hasKeychainAttachment
    /\ Cardinality(DOMAIN exportedMeshes) = 5
    /\ Len(combinedMesh.parts) = 4

\* C7: after any generate3dModel on an instance, whatever was generated
\* before, the part set and the combined mesh hold exactly the parts the
\* configuration enables now, each made by this run.
C7_NoStateCarried ==
    pc = "done" =>
        /\ DOMAIN exportedMeshes = EnabledParts(options) \cup {"combined"}
        /\ \A k \in DOMAIN exportedMeshes : exportedMeshes[k].fresh
        /\ CombinedParts = EnabledParts(options)
        /\ \A k \in 1..Len(combinedMesh.parts) : combinedMesh.parts[k].fresh

\* the steps a run takes under configuration o, in the order claimed
ClaimedOrder(o) ==
    (IF o.hasText THEN <<"label">> ELSE <<>>)
    \o <<"base">>
    \o (IF o.hasBorder THEN <<"border">> ELSE <<>>)
    \o (IF o.hasKeychainAttachment THEN <<"keychain">> ELSE <<>>)
    \o <<"combined">>

IsPrefix(a, b) == Len(a) <= Len(b) /\ a = SubSeq(b, 1, Len(a))

Finished(step) == \E k \in 1..Len(log) : log[k] = step

\* C8: the steps of a run finish in the order label, base, border, keychain,
\* combined, each only if enabled; the merge starts when every enabled part
\* is made; and plate and border take their text-base offset from the
\* message the label wrote back.
C8_GenerationOrder ==
    /\ IsPrefix(log, ClaimedOrder(options0))
    /\ pc = "done" => log = ClaimedOrder(options0)
    /\ pc = "combined" => Append(log, "combined") = ClaimedOrder(options0)
    /\ (Finished("base") /\ options0.hasText) =>
           /\ Finished("label")
           /\ baseMesh.textBaseOffset = GetTextBaseOffset(options)
    /\ (Finished("border") /\ options0.hasText) =>
           /\ Finished("label")
           /\ borderMesh.textBaseOffset = GetTextBaseOffset(options)

\* C8 witness: a run with every step, whose label overflowed so that the
\* write-back changed the number of lines the offset is computed from
C8_Witness ==
    /\ pc = "done"
    /\ log = <<"label", "base", "border", "keychain", "combined">>
    /\ options.textPlacement \in {"top", "bottom"}
    /\ Len(Split(Trim(options.textMessage))) > Len(Split(Trim(options0.textMessage)))
    /\ baseMesh.textBaseOffset = GetTextBaseOffset(options)
    /\ baseMesh.textBaseOffset # GetTextBaseOffset(options0)

\* C9: during and after a run no field of the configuration but
\* base.textMessage differs from its value at the call; textMessage differs
\* only if hasText; and under left / right its line list after the run is
\* the line list of the trimmed input message.
C9_ConfigFrame ==
    /\ [options EXCEPT !.textMessage = <<>>] = [options0 EXCEPT !.textMessage = <<>>]
    /\ ~options0.hasText => options.textMessage = options0.textMessage
    /\ (pc = "done" /\ options0.hasText /\ options0.textPlacement \in SidePlacements) =>
           Split(options.textMessage) = Split(Trim(options0.textMessage))

\* C9 witness: a left / right run on a message of two lines that the
\* write-back changed (the surrounding white space is gone)
C9_Witness ==
    /\ pc = "done"
    /\ options0.hasText
    /\ options0.textPlacement \in SidePlacements
    /\ options.textMessage # options0.textMessage
    /\ Len(Split(options.textMessage)) = 2
    /\ subtitleMesh # NoMesh

\* C10: the hole profile of the border is the outer profile moved in by
\* borderWidth on both axes, smaller by 2 * borderWidth on both axes, with
\* corner radius max(0, cornerRadius - borderWidth).
C10_BorderHoleInset ==
    borderMesh # NoMesh =>
        LET outer == borderMesh.outer
            hole == borderMesh.hole
            bw == options.borderWidth
        IN /\ hole.x = outer.x + bw
           /\ hole.y = outer.y + bw
           /\ hole.width = outer.width - 2 * bw
           /\ hole.height = outer.height - 2 * bw
           /\ hole.radius = (IF outer.radius - bw > 0 THEN outer.radius - bw ELSE 0)
           /\ outer.radius = GetCornerRadius(options)

\* C10 witness: a border around a plate with a label on top, whose corner
\* radius is smaller than the border is wide
C10_Witness ==
    /\ borderMesh # NoMesh
    /\ options.textPlacement = "top"
    /\ options.hasText
    /\ borderMesh.textBaseOffset > 0
    /\ borderMesh.outer.radius > 0
    /\ borderMesh.outer.radius < options.borderWidth
    /\ borderMesh.hole.radius = 0

\* C11: the NFC indentation is placed at the centre of the content region,
\* the origin, in both plate axes, under every text placement and whether or
\* not a label lengthens the plate.
C11_NfcAtContentCentre ==
    (baseMesh # NoMesh /\ baseMesh.nfc.has) =>
        /\ baseMesh.nfc.x = 0
        /\ baseMesh.nfc.y = 0

\* C12: under center, the position of every line of a label is the one the
\* center formula gives for the final number of lines of the wrapped label.
C12_CenterUsesTotalCount ==
    (pc = "done" /\ options.textPlacement = "center") =>
        \A k \in 1..Len(textGeometry) :
            textGeometry[k].placement = LinePlacement(options, k - 1, Len(textGeometry))

\* C13: under top / bottom / center with availableWidth > 0, the line list of
\* a running getSubtitleMesh never has more entries than the message it was
\* called on has characters (one entry allowed for the empty message), which
\* is what bounds the per-line loop.
C13_LabelTerminates ==
    (pc \in {"line", "wrap"} /\ WrapPlacement /\ availableWidth > 0) =>
        /\ numLines = Len(textLines)
        /\ numLines <= (IF options.textMessage = <<>> THEN 1 ELSE Len(options.textMessage))

====
